---- MODULE Spec2Model ----
(***************************************************************************)
(* Model of terragrunt-v19-upgrade (src/main.go): the upgrade of a parsed  *)
(* HCL1 document into an HCL2 token stream, the comment index, the block   *)
(* classifier, the blank-line policy, the literal rewriter and save.       *)
(*                                                                         *)
(* The HCL1 parser, the HCL2 lexer and the HCL2 validator are libraries:   *)
(* a document is the tree the parser returns (nodes with positions, the    *)
(* flat list of all comment groups), a string literal carries the tokens   *)
(* the lexer returns for it.                                               *)
(*                                                                         *)
(* Seven specifications share the variables:                               *)
(*   Spec         one run of upgrade on one document                       *)
(*   SpecExpr     writeLiteral on one string literal                       *)
(*   SpecNewline  needNewline on two items and a comment index             *)
(*   SpecSave     one call of save                                         *)
(*   SpecRun      run over a list of paths                                 *)
(*   SpecIndex    PeekBefore and PopBefore on a comment index              *)
(*   SpecHeredoc  writeLiteral on one heredoc literal                      *)
(***************************************************************************)
EXTENDS Integers, Sequences, FiniteSets, TLC

\* v under the name F gives it: the value of a local variable, evaluated once
Bind(v, F(_)) == F(v)

(***************************************************************************)
(* Positions (hcl/token.Pos) and the nil comment group.                    *)
(***************************************************************************)
ZeroPos == [Line |-> 0, Offset |-> 0]

After_lineOnly(u, p) == u.Line > p.Line

\* token.Pos.After, as called at main.go:573 and main.go:591
After(u, p) == u.Offset > p.Offset \/ u.Line > p.Line

\* a nil *ast.CommentGroup, and a comment group (its position is that of its
\* first comment, Comments holds the text of each comment of its List)
Nil == [kind |-> "nil", Pos |-> ZeroPos, Comments |-> <<>>]

CommentGroup(pos, texts) == [kind |-> "CommentGroup", Pos |-> pos, Comments |-> texts]

\* ast.Node.Pos() of the node kinds the walk meets; an ObjectList answers with
\* the position of its first item and has none when it is empty
NodePos(n) ==
    CASE n.kind = "ObjectList" -> n.Items[1].Keys[1].Pos
      [] n.kind = "ObjectItem" -> n.Keys[1].Pos
      [] n.kind = "ObjectType" -> n.Lbrace
      [] n.kind = "ListType" -> n.Lbrack
      [] n.kind = "LiteralType" -> n.Pos
      [] n.kind = "CommentGroup" -> n.Pos

\* o.Items[0] of an empty ObjectList is an index out of range
PosPanics(n) == n.kind = "ObjectList" /\ Len(n.Items) = 0

(***************************************************************************)
(* Output tokens (hclwrite.Token): a type and the bytes.                   *)
(***************************************************************************)
Tok(type, bytes) == [Type |-> type, Bytes |-> bytes]

tokNewline == Tok("TokenNewline", "\n")
tokComma == Tok("TokenComma", ",")
tokOBrace == Tok("TokenOBrace", "{")
tokCBrace == Tok("TokenCBrace", "}")
tokOBracket == Tok("TokenOBrack", "[")
tokCBracket == Tok("TokenCBrack", "]")
tokOQuote == Tok("TokenOQuote", "\"")
tokCQuote == Tok("TokenCQuote", "\"")
tokEqual == Tok("TokenEqual", "=")

tokComment(text) == Tok("TokenComment", text)

(***************************************************************************)
(* The comment index: commentList, PeekBefore, PopBefore.                  *)
(***************************************************************************)
\* the loop of PeekBefore and PopBefore: the number of leading comment
\* groups whose position is not After(pos)
RECURSIVE PrefixLen(_, _, _)
PrefixLen(cl, pos, i) ==
    IF i < Len(cl) /\ ~After(cl[i + 1].Pos, pos)
    THEN PrefixLen(cl, pos, i + 1)
    ELSE i

PeekBefore(cl, pos) == SubSeq(cl, 1, PrefixLen(cl, pos, 0))

PopBefore_keep(cl, pos) == [ret |-> PeekBefore(cl, pos), rest |-> cl]

\* PopBefore returns the prefix and leaves the rest in the index
PopBefore(cl, pos) ==
    LET i == PrefixLen(cl, pos, 0)
    IN  [ret |-> SubSeq(cl, 1, i), rest |-> SubSeq(cl, i + 1, Len(cl))]

(***************************************************************************)
(* The structural classifier.                                              *)
(***************************************************************************)
topLevelBlocks == <<"terraform", "remote_state", "include", "dependencies">>

\* a classifier that does not look at the depth
isBlock_anyDepth(key, depth, parent) ==
    \/ \E i \in 1..Len(topLevelBlocks) : key = topLevelBlocks[i]
    \/ parent = "terraform" /\ key = "extra_arguments"

isBlock(key, depth, parent) ==
    IF depth = 0
    THEN \E i \in 1..Len(topLevelBlocks) : key = topLevelBlocks[i]
    ELSE depth = 1 /\ parent = "terraform" /\ key = "extra_arguments"

(***************************************************************************)
(* The blank-line policy.                                                  *)
(***************************************************************************)
\* a list literal whose brackets are on different source lines
MultiLine(v) == v.kind = "ListType" /\ v.Lbrack.Line # v.Rbrack.Line

\* a policy that does not look at the comment index
needNewline_noPeek(curr, prev, cl) ==
    IF prev.LineComment # Nil THEN FALSE
    ELSE \/ curr.LeadComment # Nil
         \/ curr.Val.kind = "LiteralType" /\ curr.Val.LeadComment # Nil
         \/ MultiLine(curr.Val) \/ curr.Val.kind = "ObjectType"
         \/ MultiLine(prev.Val) \/ prev.Val.kind = "ObjectType"

needNewline(curr, prev, cl) ==
    IF prev.LineComment # Nil THEN FALSE
    ELSE IF Len(PeekBefore(cl, NodePos(curr))) > 0 THEN FALSE
    ELSE IF curr.LeadComment # Nil THEN TRUE
    ELSE IF curr.Val.kind = "LiteralType" /\ curr.Val.LeadComment # Nil THEN TRUE
    ELSE IF MultiLine(curr.Val) THEN TRUE
    ELSE IF curr.Val.kind = "ObjectType" THEN TRUE
    ELSE IF MultiLine(prev.Val) THEN TRUE
    ELSE prev.Val.kind = "ObjectType"

(***************************************************************************)
(* The literal rewriter.                                                   *)
(***************************************************************************)
\* the scan of the inner tokens at main.go:702-720: TRUE when an
\* interpolation starts outside of a nested quoted string
RECURSIVE BareInterp(_, _, _)
BareInterp(inner, i, quotes) ==
    IF i > Len(inner) THEN FALSE
    ELSE IF inner[i].Type = "TokenOQuote" THEN BareInterp(inner, i + 1, quotes + 1)
    ELSE IF inner[i].Type = "TokenCQuote" THEN BareInterp(inner, i + 1, quotes - 1)
    ELSE IF quotes > 0 THEN BareInterp(inner, i + 1, quotes)
    ELSE IF inner[i].Type = "TokenTemplateInterp" THEN TRUE
    ELSE BareInterp(inner, i + 1, quotes)

\* lex is what hclsyntax.LexExpression returns for the literal's text: the
\* tokens (the last one TokenEOF) and whether the diagnostics hold an error
upgradeExpr(lex) ==
    IF lex.err THEN lex.tok
    ELSE
      LET tok == IF lex.tok[Len(lex.tok)].Type = "TokenEOF"
                 THEN SubSeq(lex.tok, 1, Len(lex.tok) - 1)
                 ELSE lex.tok
          n == Len(tok)
      IN  IF n < 5 THEN tok
          ELSE IF \/ tok[1].Type # "TokenOQuote"
                  \/ tok[2].Type # "TokenTemplateInterp"
                  \/ tok[n - 1].Type # "TokenTemplateSeqEnd"
                  \/ tok[n].Type # "TokenCQuote"
               THEN tok
          ELSE IF BareInterp(SubSeq(tok, 3, n - 2), 1, 0) THEN tok
          ELSE SubSeq(tok, 3, n - 2)

renameFuncs ==
    [n \in {"get_tfvars_dir", "get_parent_tfvars_dir"} |->
        IF n = "get_tfvars_dir" THEN "get_terragrunt_dir" ELSE "get_parent_terragrunt_dir"]

\* the test at main.go:739 on the 0-based index i0 of a token of tokens
TooFewTokens(i0, tokens) == i0 + 2 >= Len(tokens) - 1

\* tokens is 1-based here: the token at Go's index i0 is tokens[i0 + 1]
upgradeFunctionNames(tokens) ==
    [i \in 1..Len(tokens) |->
        IF /\ tokens[i].Type = "TokenIdent"
           /\ tokens[i].Bytes \in DOMAIN renameFuncs
           /\ ~TooFewTokens(i - 1, tokens)
           /\ tokens[i + 1].Type = "TokenOParen"
           /\ tokens[i + 2].Type = "TokenCParen"
        THEN Tok("TokenIdent", renameFuncs[tokens[i].Bytes])
        ELSE tokens[i]]

\* the bytes of a sequence of characters
RECURSIVE Concat(_)
Concat(chars) == IF chars = <<>> THEN "" ELSE Head(chars) \o Concat(Tail(chars))

\* strings.IndexByte(text, '\n') on the characters of a heredoc, 1-based; 0
\* when there is none
RECURSIVE IndexNewline(_, _)
IndexNewline(chars, i) ==
    IF i > Len(chars) THEN 0
    ELSE IF chars[i] = "\n" THEN i
    ELSE IndexNewline(chars, i + 1)

heredocDelim_keepFlag(chars) == SubSeq(chars, 3, IndexNewline(chars, 1))

\* the delimiter of a heredoc, main.go:439-442
heredocDelim(chars) ==
    LET delim == SubSeq(chars, 3, IndexNewline(chars, 1))
    IN  IF delim[1] = "-" THEN Tail(delim) ELSE delim

LiteralPanics(val) == val.Type = "HEREDOC" /\ IndexNewline(val.Chars, 1) = 0

\* the tokens writeLiteral appends for a literal
writeLiteral(val) ==
    CASE val.Type \in {"NUMBER", "FLOAT"} -> <<Tok("TokenNumberLit", val.Text)>>
      [] val.Type = "BOOL" -> <<Tok("TokenIdent", val.Text)>>
      [] val.Type = "HEREDOC" ->
            LET delim == Concat(heredocDelim(val.Chars))
            IN  <<Tok("TokenOHeredoc", "<<" \o delim),
                  Tok("TokenStringLit", val.Value),
                  Tok("TokenCHeredoc", delim)>>
      [] val.Type = "STRING" -> upgradeFunctionNames(upgradeExpr(val.Lex))
      [] OTHER -> <<>>

(***************************************************************************)
(* The tree walker.  The walk threads a record w: out is the body's token  *)
(* stream, cl the live comment index, panic whether the run has panicked.  *)
(* pops (the positions handed to PopBefore, in call order) and log (one    *)
(* entry per node written: the node, its depth and parent key, and the     *)
(* part of out it produced, pre..to with its popped comments and from..to  *)
(* without) are history the code does not keep.                            *)
(***************************************************************************)
NewBody(cl) == [out |-> <<>>, cl |-> cl, pops |-> <<>>, log |-> <<>>, panic |-> FALSE]

AppendTokens(w, toks) == [w EXCEPT !.out = @ \o toks]

\* the tokens of one comment group: each comment and a newline
RECURSIVE GroupTokens(_, _)
GroupTokens(texts, i) ==
    IF i > Len(texts) THEN <<>>
    ELSE <<tokComment(texts[i]), tokNewline>> \o GroupTokens(texts, i + 1)

\* the loop of writeComments over the popped groups; Pos.Line is the line of
\* the group's first comment
RECURSIVE CommentsTokens(_, _)
CommentsTokens(comments, i) ==
    IF i > Len(comments) THEN <<>>
    ELSE (IF comments[i].Pos.Line # 1 THEN <<tokNewline>> ELSE <<>>)
         \o GroupTokens(comments[i].Comments, 1)
         \o CommentsTokens(comments, i + 1)

writeComments(w, comments) ==
    IF Len(comments) = 0 THEN w
    ELSE AppendTokens(w, CommentsTokens(comments, 1) \o <<tokNewline>>)

\* the key, then "=" for an attribute or the quoted labels for a block
RECURSIVE LabelTokens(_, _)
LabelTokens(keys, i) ==
    IF i > Len(keys) THEN <<>>
    ELSE <<tokOQuote, Tok("TokenQuotedLit", keys[i].Value), tokCQuote>>
         \o LabelTokens(keys, i + 1)

KeyTokens(nv, depth, parentKey) ==
    <<Tok("TokenIdent", nv.Keys[1].Text)>>
    \o (IF ~isBlock(nv.Keys[1].Text, depth, parentKey) THEN <<tokEqual>>
        ELSE LabelTokens(nv.Keys, 2))

\* a list that closes without the comma of a list of several lines
ListClose_plain(oneline) == <<tokCBracket>>

\* what a list appends after its last element, main.go:321-326
ListClose(oneline) ==
    (IF ~oneline THEN <<tokComma, tokNewline>> ELSE <<>>) \o <<tokCBracket>>

\* what a list appends before its element i (0-based), main.go:312-317
ListSeparator(i, oneline) ==
    IF i > 0
    THEN <<tokComma>> \o (IF ~oneline THEN <<tokNewline>> ELSE <<>>)
    ELSE <<>>

RECURSIVE writeNode(_, _, _, _, _)
RECURSIVE writeKind(_, _, _, _, _)
RECURSIVE writeElems(_, _, _, _, _, _, _)
RECURSIVE writeItems(_, _, _, _, _, _)

\* an attached comment group is written with a nil comment index
writeAttached(depth, parentKey, w, cg) ==
    IF cg # Nil THEN writeNode(depth, parentKey, w, cg, FALSE) ELSE w

\* the loop over the elements of a list, i 0-based
writeElems(depth, parentKey, w, list, i, oneline, withCl) ==
    IF i >= Len(list) \/ w.panic THEN w
    ELSE writeElems(depth, parentKey,
             writeNode(depth + 1, parentKey,
                 AppendTokens(w, ListSeparator(i, oneline)), list[i + 1], withCl),
             list, i + 1, oneline, withCl)

\* the loop over the items of an object list, i 0-based
writeItems(depth, parentKey, w, items, i, withCl) ==
    IF i >= Len(items) \/ w.panic THEN w
    ELSE writeItems(depth, parentKey,
             writeNode(depth + 1, parentKey,
                 IF i > 0 /\ needNewline(items[i + 1], items[i], w.cl)
                 THEN AppendTokens(w, <<tokNewline>>) ELSE w,
                 items[i + 1], withCl),
             items, i + 1, withCl)

\* the switch of writeNode on the kind of the node, main.go:303-382; w holds
\* the comments popped before the node
writeKind(depth, parentKey, w, node, withCl) ==
    CASE node.kind = "ListType" ->
           Bind(node.Lbrack.Line = node.Rbrack.Line, LAMBDA oneline :
             AppendTokens(
                 writeElems(depth, parentKey,
                     AppendTokens(w, <<tokOBracket>>
                         \o (IF ~oneline THEN <<tokNewline>> ELSE <<>>)),
                     node.List, 0, oneline, withCl),
                 ListClose(oneline)))
      [] node.kind = "LiteralType" ->
           Bind(writeAttached(depth, parentKey, w, node.LeadComment), LAMBDA wa :
             IF LiteralPanics(node) THEN [wa EXCEPT !.panic = TRUE]
             ELSE writeAttached(depth, parentKey,
                      AppendTokens(wa, writeLiteral(node)), node.LineComment))
      [] node.kind = "ObjectItem" ->
           AppendTokens(
               writeAttached(depth, parentKey,
                   writeNode(depth, node.Keys[1].Text,
                       AppendTokens(
                           writeAttached(depth, parentKey, w, node.LeadComment),
                           KeyTokens(node, depth, parentKey)),
                       node.Val, withCl),
                   node.LineComment),
               <<tokNewline>>)
      [] node.kind = "ObjectList" ->
           writeItems(depth, parentKey, w, node.Items, 0, withCl)
      [] node.kind = "ObjectType" ->
           AppendTokens(
               writeNode(depth, parentKey, AppendTokens(w, <<tokOBrace, tokNewline>>),
                   node.ObjList, withCl),
               <<tokCBrace>>)
      [] node.kind = "CommentGroup" ->
           AppendTokens(w, GroupTokens(node.Comments, 1))

\* the history of a node written: w before the node, w0 after its popped
\* comments, w1 after the node
Logged(node, depth, parentKey, w, w0, w1) ==
    IF w1.panic THEN w1
    ELSE [w1 EXCEPT !.log = Append(@,
             [node |-> node, depth |-> depth, parent |-> parentKey,
              pre |-> Len(w.out) + 1, from |-> Len(w0.out) + 1, to |-> Len(w1.out)])]

\* the detached comments that come before the node, main.go:298-301
popComments(w, node) ==
    Bind(PopBefore(w.cl, NodePos(node)), LAMBDA popped :
      [writeComments(w, popped.ret) EXCEPT
          !.cl = popped.rest, !.pops = Append(@, NodePos(node))])

writeNode(depth, parentKey, w, node, withCl) ==
    IF w.panic THEN w
    ELSE IF withCl /\ PosPanics(node) THEN [w EXCEPT !.panic = TRUE]
    ELSE Bind(IF withCl THEN popComments(w, node) ELSE w, LAMBDA w0 :
           Logged(node, depth, parentKey, w, w0,
                  writeKind(depth, parentKey, w0, node, withCl)))

(***************************************************************************)
(* upgrade, in the order of its code: the detached comments, the split of  *)
(* the root items, the walk of the settings, the walk of the synthesized   *)
(* inputs item, the flush of the comments left in the index.               *)
(***************************************************************************)
errNotTerragruntConfig == "file does not contain a terragrunt attribute"

Range(f) == {f[i] : i \in DOMAIN f}

\* the positions the callback of ast.Walk stores in m, main.go:483-504
OwnComments(n) == {c.Pos : c \in {n.LeadComment, n.LineComment} \ {Nil}}

RECURSIVE AttachedPos(_)
AttachedPos(n) ==
    CASE n.kind = "ObjectList" -> UNION {AttachedPos(n.Items[i]) : i \in DOMAIN n.Items}
      [] n.kind = "ObjectItem" -> OwnComments(n) \cup AttachedPos(n.Val)
      [] n.kind = "ObjectType" -> AttachedPos(n.ObjList)
      [] n.kind = "ListType" -> UNION {AttachedPos(n.List[i]) : i \in DOMAIN n.List}
      [] n.kind = "LiteralType" -> OwnComments(n)

\* the comments of f.Comments whose position is not in m, in their order
RECURSIVE NotIn(_, _, _)
NotIn(comments, m, i) ==
    IF i > Len(comments) THEN <<>>
    ELSE (IF comments[i].Pos \in m THEN <<>> ELSE <<comments[i]>>)
         \o NotIn(comments, m, i + 1)

\* a loadDetachedComments that takes every comment for a detached one
loadDetachedComments_all(f) == f.Comments

loadDetachedComments(f) == NotIn(f.Comments, AttachedPos(f.Node), 1)

IsTerragrunt(item) == item.Keys[1].Text = "terragrunt"

\* the loop over root.Items, main.go:242-252; the type assertion on the
\* value of a terragrunt item panics when it is no object
RECURSIVE splitRoot(_, _, _)
splitRoot(items, i, acc) ==
    IF i > Len(items) \/ acc.panic THEN acc
    ELSE IF IsTerragrunt(items[i])
    THEN IF items[i].Val.kind # "ObjectType"
         THEN [acc EXCEPT !.panic = TRUE]
         ELSE splitRoot(items, i + 1,
                  [acc EXCEPT !.tgSettings = @ \o items[i].Val.ObjList.Items])
    ELSE splitRoot(items, i + 1, [acc EXCEPT !.inputVars = Append(@, items[i])])

\* an upgrade that skips the test at main.go:254
NoSettings_never(tgSettings) == FALSE

\* upgrade answers errNotTerragruntConfig on this test, main.go:254
NoSettings(tgSettings) == Len(tgSettings) = 0

ObjectList(items) == [kind |-> "ObjectList", Items |-> items]

\* the synthesized inputs item, main.go:265-280: its key has the position of
\* the first free variable, its object no position
inputsItem(inputVars) ==
    [kind |-> "ObjectItem",
     Keys |-> <<[Text |-> "inputs", Value |-> "inputs", Pos |-> NodePos(inputVars[1])]>>,
     Assign |-> FALSE,
     Val |-> [kind |-> "ObjectType", Lbrace |-> ZeroPos, ObjList |-> ObjectList(inputVars)],
     LeadComment |-> Nil, LineComment |-> Nil]

writeSettings(w, tgSettings) == writeNode(-1, "", w, ObjectList(tgSettings), TRUE)

writeInputs(w, inputVars) ==
    IF Len(inputVars) > 0
    THEN writeNode(-1, "", AppendTokens(w, <<tokNewline>>), inputsItem(inputVars), TRUE)
    ELSE w

\* the comments left in the index, each after a newline, main.go:285-291
RECURSIVE writeRemaining(_, _, _)
writeRemaining(w, cl, i) ==
    IF i > Len(cl) THEN w
    ELSE writeRemaining(
             writeNode(0, "", AppendTokens(w, <<tokNewline>>), cl[i], FALSE), cl, i + 1)

\* the whole of upgrade on a parsed file: err is "" for nil, out the tokens
\* of the body (hclwrite.Format changes only their spacing)
upgrade(f) ==
    IF f.parseErr THEN [err |-> "error parsing file", out |-> <<>>, body |-> NewBody(<<>>)]
    ELSE
      Bind(splitRoot(f.Node.Items, 1,
               [tgSettings |-> <<>>, inputVars |-> <<>>, panic |-> FALSE]), LAMBDA split :
      Bind(NewBody(loadDetachedComments(f)), LAMBDA w0 :
        IF split.panic THEN [err |-> "panic", out |-> <<>>, body |-> w0]
        ELSE IF NoSettings(split.tgSettings)
        THEN [err |-> errNotTerragruntConfig, out |-> <<>>, body |-> w0]
        ELSE
          Bind(writeInputs(writeSettings(w0, split.tgSettings), split.inputVars), LAMBDA w2 :
            IF w2.panic THEN [err |-> "panic", out |-> <<>>, body |-> w2]
            ELSE Bind(writeRemaining(w2, w2.cl, 1), LAMBDA w3 :
                   [err |-> "", out |-> w3.out, body |-> w3]))))

(***************************************************************************)
(* Input documents.  hclv1parser.Parse is a library: a document is given   *)
(* by its shape (items, values, and the places that hold a comment), and   *)
(* Parse lays the shape out in source order to the tree the parser         *)
(* returns: every node with its position, lead and line comments attached  *)
(* to their node, and the flat list of all comment groups.                 *)
(*                                                                         *)
(* A shape is a literal [s |-> "lit", f |-> flavour], a list               *)
(* [s |-> "list", multi |-> whether each element has its own line,         *)
(* elems |-> shapes] or an object [s |-> "obj", items |-> item shapes]; an *)
(* item shape is [keys |-> the key and its labels, val |-> shape].  The    *)
(* places of comments are numbered in source order; marks is the set of    *)
(* the places that hold one.                                               *)
(***************************************************************************)
SLit(f) == [s |-> "lit", f |-> f]
SList(multi, elems) == [s |-> "list", multi |-> multi, elems |-> elems]
SObj(items) == [s |-> "obj", items |-> items]
\* assign says whether the source has "=" between the keys and the value
SItemAs(keys, val, assign) == [keys |-> keys, val |-> val, assign |-> assign]
SItem(keys, val) == SItemAs(keys, val, val.s # "obj")

Lexed(toks) == [tok |-> toks \o <<Tok("TokenEOF", "")>>, err |-> FALSE]

Call(name) == <<Tok("TokenIdent", name), Tok("TokenOParen", "("), Tok("TokenCParen", ")")>>

Interp(inner) ==
    <<Tok("TokenTemplateInterp", "${")>> \o inner \o <<Tok("TokenTemplateSeqEnd", "}")>>

Quoted(parts) == <<tokOQuote>> \o parts \o <<tokCQuote>>

\* the literal of each flavour, as the parser and the lexer return it
Literal(f, pos, lead, line) ==
    LET base == [kind |-> "LiteralType", Pos |-> pos, Type |-> "STRING", Text |-> "",
                 Chars |-> <<>>, Value |-> "", Lex |-> Lexed(<<>>),
                 LeadComment |-> lead, LineComment |-> line]
    IN  CASE f = "num" -> [base EXCEPT !.Type = "NUMBER", !.Text = "10"]
          [] f = "bool" -> [base EXCEPT !.Type = "BOOL", !.Text = "true"]
          [] f = "str" ->
                [base EXCEPT !.Text = "\"abc\"",
                             !.Lex = Lexed(Quoted(<<Tok("TokenQuotedLit", "abc")>>))]
          [] f = "interp" ->
                [base EXCEPT !.Text = "\"${find_in_parent_folders()}\"",
                             !.Lex = Lexed(Quoted(Interp(Call("find_in_parent_folders"))))]
          [] f = "heredoc" ->
                [base EXCEPT !.Type = "HEREDOC", !.Text = "<<EOF",
                             !.Chars = <<"<", "<", "E", "O", "F", "\n",
                                         "x", "\n", "E", "O", "F">>,
                             !.Value = "x\n"]

CommentTexts == <<"# c1", "# c2", "# c3", "# c4", "# c5", "# c6">>

\* the place of a comment: when marked, a comment group at the cursor, which
\* then moves on by gap lines
Here(L) == [Line |-> L.line, Offset |-> L.off]

Place(L, marks, gap) ==
    IF L.slot \in marks
    THEN Bind(CommentGroup(Here(L), <<CommentTexts[Len(L.all) + 1]>>), LAMBDA cg :
           [cg |-> cg,
            L |-> [line |-> L.line + gap, off |-> L.off + 1, slot |-> L.slot + 1,
                   all |-> Append(L.all, cg)]])
    ELSE [cg |-> Nil, L |-> [L EXCEPT !.slot = @ + 1]]
Step(L) == [L EXCEPT !.off = @ + 1]
NextLine(L) == [L EXCEPT !.line = @ + 1]

RECURSIVE LayVal(_, _, _, _)
RECURSIVE LayElems(_, _, _, _, _)
RECURSIVE LayItem(_, _, _)
RECURSIVE LayItems(_, _, _, _)

\* the keys of an item: the first an identifier, the others quoted labels
RECURSIVE LayKeys(_, _, _)
LayKeys(keys, i, L) ==
    IF i > Len(keys) THEN [keys |-> <<>>, L |-> L]
    ELSE Bind(LayKeys(keys, i + 1, Step(L)), LAMBDA rest :
           [keys |-> <<[Text |-> keys[i], Value |-> keys[i], Pos |-> Here(L)]>>
                       \o rest.keys,
            L |-> rest.L])

\* a literal that is an element of a list whose elements have their own
\* lines: the places of its lead comment (on the line before it) and of its
\* line comment
LayElemLit(v, L, marks) ==
    Bind(Place(L, marks, 1), LAMBDA lead :
    Bind(Place(Step(lead.L), marks, 0), LAMBDA line :
      [node |-> Literal(v.f, Here(lead.L), lead.cg, line.cg), L |-> line.L]))

\* a value; ownLine says it is an element of a list on a line of its own
LayVal(v, L, marks, ownLine) ==
    CASE v.s = "lit" ->
           IF ownLine THEN LayElemLit(v, L, marks)
           ELSE [node |-> Literal(v.f, Here(L), Nil, Nil), L |-> Step(L)]
      [] v.s = "list" ->
           Bind(LayElems(v.elems, 1,
                    IF v.multi /\ Len(v.elems) > 0 THEN NextLine(Step(L)) ELSE Step(L),
                    marks, v.multi), LAMBDA es :
           Bind(IF v.multi /\ Len(v.elems) = 0 THEN NextLine(es.L) ELSE es.L, LAMBDA close :
             [node |-> [kind |-> "ListType", Lbrack |-> Here(L), Rbrack |-> Here(close),
                        List |-> es.nodes],
              L |-> Step(close)]))
      [] v.s = "obj" ->
           Bind(LayItems(v.items, 1,
                    IF Len(v.items) > 0 THEN NextLine(Step(L)) ELSE Step(L), marks),
                LAMBDA is :
             [node |-> [kind |-> "ObjectType", Lbrace |-> Here(L),
                        ObjList |-> ObjectList(is.nodes)],
              L |-> Step(Place(is.L, marks, 1).L)])

\* the elements of a list, each after the place of a detached comment
LayElems(elems, i, L, marks, multi) ==
    IF i > Len(elems) THEN [nodes |-> <<>>, L |-> L]
    ELSE Bind(LayVal(elems[i], Place(L, marks, IF multi THEN 2 ELSE 0).L, marks, multi),
              LAMBDA e :
         Bind(LayElems(elems, i + 1, IF multi THEN NextLine(e.L) ELSE e.L, marks, multi),
              LAMBDA rest :
           [nodes |-> <<e.node>> \o rest.nodes, L |-> rest.L]))

\* an item: the places of a detached comment and of its lead comment, its
\* keys, the place of a detached comment before its value, the value, the
\* place of its line comment
LayItem(it, L, marks) ==
    Bind(Place(Place(L, marks, 2).L, marks, 1), LAMBDA lead :
    Bind(LayKeys(it.keys, 1, lead.L), LAMBDA keys :
    Bind(LayVal(it.val, Place(keys.L, marks, 0).L, marks, FALSE), LAMBDA val :
    Bind(Place(val.L, marks, 0), LAMBDA line :
      [node |-> [kind |-> "ObjectItem", Keys |-> keys.keys, Assign |-> it.assign,
                 Val |-> val.node, LeadComment |-> lead.cg, LineComment |-> line.cg],
       L |-> NextLine(line.L)]))))

LayItems(items, i, L, marks) ==
    IF i > Len(items) THEN [nodes |-> <<>>, L |-> L]
    ELSE Bind(LayItem(items[i], L, marks), LAMBDA it :
         Bind(LayItems(items, i + 1, it.L, marks), LAMBDA rest :
           [nodes |-> <<it.node>> \o rest.nodes, L |-> rest.L]))

Start == [line |-> 1, off |-> 0, slot |-> 0, all |-> <<>>]

\* the file Parse returns for the top-level items shape: the last place is
\* that of a detached comment at the end of the file
Parse(shape, marks) ==
    Bind(LayItems(shape, 1, Start, marks), LAMBDA is :
      [parseErr |-> FALSE, Node |-> ObjectList(is.nodes),
       Comments |-> Place(is.L, marks, 1).L.all])

\* the number of places of a shape
Places(shape) == Place(LayItems(shape, 1, Start, {}).L, {}, 1).L.slot

(***************************************************************************)
(* The documents checked.                                                  *)
(***************************************************************************)
MaxSettings == 2
MaxFree == 2
MaxComments == 2

SeqsUpTo(S, n) == UNION {[1..k -> S] : k \in 0..n}

Str == SLit("str")
Num == SLit("num")

\* children of the terragrunt object
SettingShapes ==
    { SItem(<<"terraform">>, SObj(<<SItem(<<"source">>, Str)>>)),
      SItem(<<"terraform">>,
            SObj(<<SItem(<<"extra_arguments", "foo">>,
                         SObj(<<SItem(<<"commands">>, SList(FALSE, <<Str, Num>>))>>))>>)),
      SItem(<<"iam_role">>, SLit("interp")),
      SItem(<<"paths">>, SList(TRUE, <<Str, Num>>)),
      SItem(<<"skip">>, SList(TRUE, <<>>)) }

\* top-level items other than terragrunt
FreeShapes ==
    { SItem(<<"domain">>, Str),
      SItem(<<"terraform">>, SObj(<<SItem(<<"extra_arguments">>, SLit("bool"))>>)) }

Terragrunt(settings) == SItem(<<"terragrunt">>, SObj(settings))

\* the documents without comments: free variables before and after at most
\* one terragrunt item
PlainShapes ==
    { pre \o tg \o post :
        pre \in SeqsUpTo({SItem(<<"region">>, Num)}, 1),
        tg \in {<<>>} \cup {<<Terragrunt(ss)>> : ss \in SeqsUpTo(SettingShapes, MaxSettings)},
        post \in SeqsUpTo(FreeShapes, MaxFree) }

\* the documents that hold comments, at most MaxComments of them
CommentedShapes ==
    { <<SItem(<<"region">>, Num),
        Terragrunt(<<SItem(<<"terraform">>, SObj(<<SItem(<<"source">>, Str)>>)),
                     SItem(<<"paths">>, SList(TRUE, <<Str>>))>>),
        SItem(<<"tags">>, SObj(<<SItem(<<"name">>, Str)>>))>>,
      <<Terragrunt(<<SItem(<<"skip">>, SLit("bool")),
                     SItem(<<"ports">>, SList(FALSE, <<Num, Num>>))>>),
        SItem(<<"domain">>, Str)>> }

\* the sets of at most k of the places 0..n-1
RECURSIVE MarksUpTo(_, _)
MarksUpTo(n, k) ==
    IF k = 0 THEN {{}}
    ELSE LET fewer == MarksUpTo(n, k - 1)
         IN  fewer \cup {m \cup {x} : m \in fewer, x \in 0..(n - 1)}

MarkSets(n) == MarksUpTo(n, MaxComments)

\* the keys the classifier tells apart, and one it does not know
KeyNames == {"terraform", "remote_state", "include", "dependencies", "extra_arguments", "prefix"}

\* the documents with every key at the depths 0 and 1 under every parent key,
\* the first level written with and without "="
KeyShapes ==
    { <<Terragrunt(<<SItemAs(<<k1>>,
                             SObj(<<SItem(<<k2>>, SObj(<<SItem(<<k3>>, Str)>>))>>),
                             assign)>>)>> :
        k1 \in KeyNames, k2 \in KeyNames,
        k3 \in {"terraform", "extra_arguments", "prefix"}, assign \in BOOLEAN }

\* a terragrunt item whose value is no object, a setting whose object is
\* empty, and a file that does not parse
OddFiles ==
    { Parse(<<SItem(<<"terragrunt">>, Str), SItem(<<"domain">>, Str)>>, {}),
      Parse(<<Terragrunt(<<SItem(<<"locals">>, SObj(<<>>))>>)>>, {}),
      [Parse(<<>>, {}) EXCEPT !.parseErr = TRUE] }

Files ==
    {Parse(sh, {}) : sh \in PlainShapes \cup KeyShapes}
    \cup UNION {{Parse(sh, m) : m \in MarkSets(Places(sh))} : sh \in CommentedShapes}
    \cup OddFiles

(***************************************************************************)
(* Specification of one run of upgrade on one file.  ret holds the bytes   *)
(* upgrade returns (as tokens) and err its error, "" for nil; a run that   *)
(* panics returns nothing and ends with pc = "panic".                      *)
(***************************************************************************)
VARIABLES file, pc, tgSettings, inputVars, body, err, ret, arg, c, disk, effects

vars == <<file, pc, tgSettings, inputVars, body, err, ret, arg, c, disk, effects>>

\* the variables of save and of the calls of single functions
others == <<arg, c, disk, effects>>

NoFile == [Parse(<<>>, {}) EXCEPT !.parseErr = TRUE]

Init ==
    /\ file \in Files
    /\ pc = "parse"
    /\ tgSettings = <<>>
    /\ inputVars = <<>>
    /\ body = NewBody(<<>>)
    /\ err = ""
    /\ ret = <<>>
    /\ arg = <<>>
    /\ c = <<>>
    /\ disk = <<>>
    /\ effects = <<>>

\* main.go:229-256
ParseAndSplit ==
    /\ pc = "parse"
    /\ LET split == splitRoot(file.Node.Items, 1,
                        [tgSettings |-> <<>>, inputVars |-> <<>>, panic |-> FALSE])
       IN  IF file.parseErr
           THEN /\ pc' = "failed"
                /\ err' = "error parsing file"
                /\ UNCHANGED <<tgSettings, inputVars, body>>
           ELSE /\ body' = NewBody(loadDetachedComments(file))
                /\ tgSettings' = split.tgSettings
                /\ inputVars' = split.inputVars
                /\ pc' = IF split.panic THEN "panic"
                         ELSE IF NoSettings(split.tgSettings) THEN "failed"
                         ELSE "settings"
                /\ err' = IF split.panic THEN ""
                          ELSE IF NoSettings(split.tgSettings) THEN errNotTerragruntConfig
                          ELSE ""
    /\ UNCHANGED <<file, ret, others>>

\* main.go:258-261
WriteSettings ==
    /\ pc = "settings"
    /\ body' = writeSettings(body, tgSettings)
    /\ pc' = IF body'.panic THEN "panic" ELSE "inputs"
    /\ UNCHANGED <<file, tgSettings, inputVars, err, ret, others>>

\* main.go:263-283
WriteInputs ==
    /\ pc = "inputs"
    /\ body' = writeInputs(body, inputVars)
    /\ pc' = IF body'.panic THEN "panic" ELSE "flush"
    /\ UNCHANGED <<file, tgSettings, inputVars, err, ret, others>>

\* main.go:285-293
Flush ==
    /\ pc = "flush"
    /\ body' = writeRemaining(body, body.cl, 1)
    /\ ret' = body'.out
    /\ pc' = "done"
    /\ UNCHANGED <<file, tgSettings, inputVars, err, others>>

Next == ParseAndSplit \/ WriteSettings \/ WriteInputs \/ Flush

Spec == Init /\ [][Next]_vars

\* upgrade has returned, with err or with ret, or has panicked
Ended == pc \in {"done", "failed", "panic"}

(***************************************************************************)
(* Specification of writeLiteral on a string literal, main.go:458-472: the *)
(* text is lexed again, upgradeExpr gives tmpTok (ret), the tokens with    *)
(* the functions renamed are appended to the body.                         *)
(*                                                                         *)
(* hclsyntax.LexExpression is a library: a string literal is given by its  *)
(* parts, each a run of text, an interpolation "${expr}" or a template     *)
(* control "%{...}", and the lexer's tokens are those of the parts between *)
(* the quotes.  The lexer reports an error on an operator it does not      *)
(* know.                                                                   *)
(***************************************************************************)
MaxParts == 3

Ident(name) == <<Tok("TokenIdent", name)>>

\* the expressions of the interpolations
Exprs ==
    { Ident("a"),
      Ident("get_tfvars_dir"),
      Call("get_tfvars_dir"),
      Call("get_parent_tfvars_dir"),
      Ident("get_tfvars_dir") \o <<Tok("TokenOParen", "(")>> \o Ident("a")
          \o <<Tok("TokenCParen", ")")>>,
      Ident("f") \o <<Tok("TokenOParen", "(")>> \o Quoted(Interp(Ident("a")))
          \o <<Tok("TokenCParen", ")")>>,
      Ident("f") \o <<Tok("TokenOParen", "(")>> \o Call("get_tfvars_dir")
          \o <<Tok("TokenCParen", ")")>>,
      Ident("a") \o <<Tok("TokenBitwiseAnd", "&")>> \o Ident("b") }

PartKinds ==
    {[kind |-> "text", expr |-> <<>>, toks |-> <<Tok("TokenQuotedLit", "/x")>>],
     [kind |-> "control", expr |-> <<>>,
      toks |-> <<Tok("TokenTemplateControl", "%{")>> \o Ident("x")
                   \o <<Tok("TokenTemplateSeqEnd", "}")>>]}
    \cup {[kind |-> "interp", expr |-> e, toks |-> Interp(e)] : e \in Exprs}

RECURSIVE TokensOf(_, _)
TokensOf(parts, i) ==
    IF i > Len(parts) THEN <<>> ELSE parts[i].toks \o TokensOf(parts, i + 1)

\* what the lexer returns for the literal of these parts
LexExpression(parts) ==
    [tok |-> Quoted(TokensOf(parts, 1)) \o <<Tok("TokenEOF", "")>>,
     err |-> \E i \in DOMAIN parts : \E j \in DOMAIN parts[i].toks :
                 parts[i].toks[j].Type = "TokenBitwiseAnd"]

\* the lexer gives one token for a run of text
StringLiterals ==
    {parts \in SeqsUpTo(PartKinds, MaxParts) :
        \A i \in 1..(Len(parts) - 1) : ~(parts[i].kind = "text" /\ parts[i + 1].kind = "text")}

InitExpr ==
    /\ arg \in {[parts |-> ps, Lex |-> LexExpression(ps)] : ps \in StringLiterals}
    /\ pc = "lex"
    /\ ret = <<>>
    /\ body = NewBody(<<>>)
    /\ file = NoFile
    /\ tgSettings = <<>>
    /\ inputVars = <<>>
    /\ err = ""
    /\ c = <<>>
    /\ disk = <<>>
    /\ effects = <<>>

\* main.go:459
UpgradeExpr ==
    /\ pc = "lex"
    /\ ret' = upgradeExpr(arg.Lex)
    /\ pc' = "names"
    /\ UNCHANGED <<file, tgSettings, inputVars, body, err, arg, c, disk, effects>>

\* main.go:461-471
UpgradeFunctionNames ==
    /\ pc = "names"
    /\ body' = AppendTokens(body, upgradeFunctionNames(ret))
    /\ pc' = "written"
    /\ UNCHANGED <<file, tgSettings, inputVars, err, ret, arg, c, disk, effects>>

NextExpr == UpgradeExpr \/ UpgradeFunctionNames

SpecExpr == InitExpr /\ [][NextExpr]_vars

\* C4: upgradeExpr returns the tokens of the expression, without the quotes
\* and the "${" and "}", if and only if the literal is one interpolation
\* and nothing else; for every other literal (text, text around an
\* interpolation, several interpolations, another template sequence beside
\* the interpolation) it returns the lexer's tokens, quotes included.
C4_UnwrapsWholeInterpolation ==
    (pc \in {"names", "written"} /\ ~arg.Lex.err) =>
        ret = IF Len(arg.parts) = 1 /\ arg.parts[1].kind = "interp"
              THEN arg.parts[1].expr
              ELSE Quoted(TokensOf(arg.parts, 1))

\* the same without the literals that hold a template control
C4_WithoutControl ==
    (\A i \in DOMAIN arg.parts : arg.parts[i].kind # "control")
        => C4_UnwrapsWholeInterpolation

\* the names the claim gives
Renamed(name) ==
    IF name = "get_tfvars_dir" THEN "get_terragrunt_dir" ELSE "get_parent_terragrunt_dir"

\* C5: of the tokens passed to upgradeFunctionNames, an identifier
\* get_tfvars_dir or get_parent_tfvars_dir is renamed to get_terragrunt_dir
\* or get_parent_terragrunt_dir if and only if the next token is "(" and
\* the one after it ")", wherever in the tokens it is; every other token is
\* left as it was.
C5_RenamesZeroArgumentCalls ==
    pc = "written" =>
        /\ Len(body.out) = Len(ret)
        /\ \A i \in DOMAIN ret :
              body.out[i] =
                  IF /\ ret[i].Type = "TokenIdent"
                     /\ ret[i].Bytes \in {"get_tfvars_dir", "get_parent_tfvars_dir"}
                     /\ i + 2 <= Len(ret)
                     /\ ret[i + 1].Type = "TokenOParen"
                     /\ ret[i + 2].Type = "TokenCParen"
                  THEN Tok("TokenIdent", Renamed(ret[i].Bytes))
                  ELSE ret[i]

\* the same for the calls that are not the end of the tokens
C5_CallsFollowedByAToken ==
    (pc = "written" /\ ret[Len(ret)].Type # "TokenCParen") => C5_RenamesZeroArgumentCalls

(***************************************************************************)
(* Specification of the blank line between two items of an object list,    *)
(* main.go:364-370: needNewline on the item, the item before it and the    *)
(* comment index, and the newline appended when it answers true.           *)
(***************************************************************************)
LineOf(n) == [Line |-> n, Offset |-> 10 * n]

\* the values of an item that starts on the line n
ValuesAt(n) ==
    { Literal("num", LineOf(n), Nil, Nil),
      Literal("str", LineOf(n), CommentGroup(LineOf(n - 1), <<"# lead">>), Nil),
      [kind |-> "ListType", Lbrack |-> LineOf(n), Rbrack |-> LineOf(n), List |-> <<>>],
      [kind |-> "ListType", Lbrack |-> LineOf(n), Rbrack |-> LineOf(n + 1), List |-> <<>>],
      [kind |-> "ObjectType", Lbrace |-> LineOf(n), ObjList |-> ObjectList(<<>>)] }

ItemsAt(n) ==
    { [kind |-> "ObjectItem",
       Keys |-> <<[Text |-> "key", Value |-> "key", Pos |-> LineOf(n)]>>,
       Assign |-> TRUE, Val |-> v, LeadComment |-> lead, LineComment |-> line] :
        v \in ValuesAt(n),
        lead \in {Nil, CommentGroup(LineOf(n - 1), <<"# lead">>)},
        line \in {Nil, CommentGroup(LineOf(n + 1), <<"# line">>)} }

\* the comment index: detached comments in source order, between the two
\* items (which start on the lines 2 and 6) and after them
Indexes ==
    { <<>>,
      <<CommentGroup(LineOf(4), <<"# between">>)>>,
      <<CommentGroup(LineOf(9), <<"# after">>)>>,
      <<CommentGroup(LineOf(4), <<"# between">>),
        CommentGroup(LineOf(9), <<"# after">>)>> }

InitNewline ==
    /\ arg \in {[curr |-> cu, prev |-> pr, cl |-> cl] :
                   cu \in ItemsAt(6), pr \in ItemsAt(2), cl \in Indexes}
    /\ pc = "item"
    /\ ret = FALSE
    /\ body = NewBody(arg.cl)
    /\ file = NoFile
    /\ tgSettings = <<>>
    /\ inputVars = <<>>
    /\ err = ""
    /\ c = <<>>
    /\ disk = <<>>
    /\ effects = <<>>

\* main.go:366
NeedNewline ==
    /\ pc = "item"
    /\ ret' = needNewline(arg.curr, arg.prev, body.cl)
    /\ pc' = "answered"
    /\ UNCHANGED <<file, tgSettings, inputVars, body, err, arg, c, disk, effects>>

\* main.go:366-368
AppendNewline ==
    /\ pc = "answered"
    /\ body' = IF ret THEN AppendTokens(body, <<tokNewline>>) ELSE body
    /\ pc' = "write"
    /\ UNCHANGED <<file, tgSettings, inputVars, err, ret, arg, c, disk, effects>>

NextNewline == NeedNewline \/ AppendNewline

SpecNewline == InitNewline /\ [][NextNewline]_vars

MultiLineList(v) == v.kind = "ListType" /\ v.Lbrack.Line < v.Rbrack.Line

\* a comment of the index lies before the item
CommentBefore(cl, item) ==
    \E i \in DOMAIN cl : cl[i].Pos.Offset < item.Keys[1].Pos.Offset

\* C8: needNewline answers false when the item before has a line comment
\* or a comment still in the index lies before the item; otherwise it
\* answers true exactly when the item has a lead comment, its value is a
\* literal with a lead comment of its own, a list of several lines or an
\* object, or the value of the item before is a list of several lines or an
\* object; two attributes of one line without comments get no blank line.
C8_BlankLinePolicy ==
    pc # "item" =>
        /\ ret = IF arg.prev.LineComment # Nil \/ CommentBefore(arg.cl, arg.curr)
                 THEN FALSE
                 ELSE \/ arg.curr.LeadComment # Nil
                      \/ arg.curr.Val.kind = "LiteralType" /\ arg.curr.Val.LeadComment # Nil
                      \/ MultiLineList(arg.curr.Val)
                      \/ arg.curr.Val.kind = "ObjectType"
                      \/ MultiLineList(arg.prev.Val)
                      \/ arg.prev.Val.kind = "ObjectType"
        /\ pc = "write" => body.out = IF ret THEN <<tokNewline>> ELSE <<>>

\* an object after a number got a blank line, although a comment after the
\* object is in the index
C8_ObjectAfterScalar ==
    /\ pc = "write"
    /\ body.out = <<tokNewline>>
    /\ arg.prev.Val.kind = "LiteralType" /\ arg.prev.LineComment = Nil
    /\ arg.curr.Val.kind = "ObjectType" /\ arg.curr.LeadComment = Nil
    /\ arg.cl # <<>>

(***************************************************************************)
(* Specification of save, main.go:516-561.  The parser of the output, the  *)
(* file system and git are the environment: contents are valid or not, a   *)
(* write, a rename or a removal succeeds or fails.  effects is the history *)
(* of what save has done to the outside.                                   *)
(***************************************************************************)
\* a save that takes every content for valid
HasErrors_none(contents) == FALSE

\* diags.HasErrors() of p.ParseHCL(contents, path), main.go:518-519
HasErrors(contents) == ~contents.valid

Paths == {"-", "terraform.tfvars", "live/terraform.tfvars"}

\* filepath.Join(filepath.Dir(path), "terragrunt.hcl"), main.go:532-533
newPath(path) == IF path = "terraform.tfvars" THEN "terragrunt.hcl" ELSE "live/terragrunt.hcl"

Absent == "(no file)"

\* the files before save: the sources hold the old configuration
InitialDisk ==
    [p \in (Paths \ {"-"}) \cup {newPath(q) : q \in Paths \ {"-"}} |->
        IF p \in Paths THEN "old" ELSE Absent]

InitSave ==
    /\ c \in [dryRun : BOOLEAN, gitMv : BOOLEAN, keepOld : BOOLEAN]
    /\ arg \in [path : Paths,
                contents : {[text |-> "new", valid |-> TRUE], [text |-> "bad", valid |-> FALSE]}]
    /\ disk = InitialDisk
    /\ effects = <<>>
    /\ err = ""
    /\ pc = "validate"
    /\ ret = <<>>
    /\ body = NewBody(<<>>)
    /\ file = NoFile
    /\ tgSettings = <<>>
    /\ inputVars = <<>>

\* main.go:517-523
Validate ==
    /\ pc = "validate"
    /\ IF HasErrors(arg.contents)
       THEN pc' = "returned" /\ err' = "diagnostics"
       ELSE pc' = "mode" /\ err' = err
    /\ UNCHANGED <<file, tgSettings, inputVars, body, ret, arg, c, disk, effects>>

\* main.go:525-527
DryRun ==
    /\ pc = "mode"
    /\ c.dryRun
    /\ effects' = Append(effects, "print contents")
    /\ pc' = "returned"
    /\ UNCHANGED <<file, tgSettings, inputVars, body, err, ret, arg, c, disk>>

\* main.go:528-531
Stdout ==
    /\ pc = "mode"
    /\ ~c.dryRun
    /\ arg.path = "-"
    /\ effects' = Append(effects, "write stdout")
    /\ pc' = "returned"
    /\ UNCHANGED <<file, tgSettings, inputVars, body, err, ret, arg, c, disk>>

\* ioutil.WriteFile at main.go:536 and main.go:547: on an error the file may
\* have been truncated
WriteFile(to, next) ==
    /\ pc = "mode"
    /\ ~c.dryRun
    /\ arg.path # "-"
    /\ \/ /\ disk' = [disk EXCEPT ![to] = arg.contents.text]
          /\ effects' = effects \o <<"write " \o to, "print updated">>
          /\ pc' = next
          /\ err' = err
       \/ /\ disk' \in {disk, [disk EXCEPT ![to] = ""]}
          /\ effects' = Append(effects, "write " \o to)
          /\ pc' = "returned"
          /\ err' = "write error"
    /\ UNCHANGED <<file, tgSettings, inputVars, body, ret, arg, c>>

\* main.go:534-540
UpdateInPlace == c.gitMv /\ WriteFile(arg.path, "git mv")

\* main.go:541-545
GitMv ==
    /\ pc = "git mv"
    /\ effects' = Append(effects, "git mv")
    /\ pc' = "returned"
    /\ \/ /\ disk' = [disk EXCEPT ![arg.path] = Absent, ![newPath(arg.path)] = disk[arg.path]]
          /\ err' = err
       \/ /\ disk' = disk
          /\ err' = "git mv error"
    /\ UNCHANGED <<file, tgSettings, inputVars, body, ret, arg, c>>

\* main.go:546-552
WriteNew ==
    ~c.gitMv /\ WriteFile(newPath(arg.path), IF c.keepOld THEN "returned" ELSE "remove")

\* main.go:554-556
Remove ==
    /\ pc = "remove"
    /\ effects' = Append(effects, "remove")
    /\ pc' = "returned"
    /\ \/ /\ disk' = [disk EXCEPT ![arg.path] = Absent]
          /\ err' = err
       \/ /\ disk' = disk
          /\ err' = "remove error"
    /\ UNCHANGED <<file, tgSettings, inputVars, body, ret, arg, c>>

NextSave == Validate \/ DryRun \/ Stdout \/ UpdateInPlace \/ GitMv \/ WriteNew \/ Remove

SpecSave == InitSave /\ [][NextSave]_vars

\* C10: save validates the contents before any other effect: when they are
\* not valid it returns the diagnostics as the error and has written,
\* removed, renamed and printed nothing; in every mode a write, a removal
\* or a rename happens only after the validation has passed.
C10_ValidatesFirst ==
    /\ ~arg.contents.valid =>
          /\ effects = <<>>
          /\ disk = InitialDisk
          /\ pc \in {"validate", "returned"}
          /\ pc = "returned" => err = "diagnostics"
    /\ (effects # <<>> \/ disk # InitialDisk) => (arg.contents.valid /\ pc # "validate")

\* save has refused contents that are not valid, in the mode that updates
\* the file in place
C10_Refused ==
    /\ pc = "returned"
    /\ ~arg.contents.valid
    /\ err = "diagnostics"
    /\ ~c.dryRun /\ c.gitMv /\ arg.path # "-"

(***************************************************************************)
(* The properties of a run of upgrade.  They read the document as the      *)
(* parser returned it, not the lists the run has built from it.            *)
(***************************************************************************)
\* the top-level items with first key "terragrunt", and the others
TerragruntItems(f) == SelectSeq(f.Node.Items, LAMBDA it : it.Keys[1].Text = "terragrunt")
FreeVariables(f) == SelectSeq(f.Node.Items, LAMBDA it : it.Keys[1].Text # "terragrunt")

HasTerragruntObject(f) ==
    /\ ~f.parseErr
    /\ TerragruntItems(f) # <<>>
    /\ \A i \in DOMAIN TerragruntItems(f) : TerragruntItems(f)[i].Val.kind = "ObjectType"

\* the children of the terragrunt objects, in source order
RECURSIVE ChildrenOf(_, _)
ChildrenOf(items, i) ==
    IF i > Len(items) THEN <<>>
    ELSE items[i].Val.ObjList.Items \o ChildrenOf(items, i + 1)

SettingChildren(f) == ChildrenOf(TerragruntItems(f), 1)

\* the items written at depth d under the parent key, in the order written
ItemsWritten(d, parent) ==
    SelectSeq(body.log,
        LAMBDA e : e.node.kind = "ObjectItem" /\ e.depth = d /\ e.parent = parent)

NodesOf(entries) == [i \in DOMAIN entries |-> entries[i].node]

\* an item's tokens start with its lead comment, then its key
KeyAt(e) == e.from + 2 * Len(e.node.LeadComment.Comments)

KeyWritten(e) == body.out[KeyAt(e)] = Tok("TokenIdent", e.node.Keys[1].Text)

\* C1: when a document parses and has no top-level item with first key
\* "terragrunt", upgrade returns errNotTerragruntConfig and no bytes,
\* whatever else the document holds.
C1_NoTerragruntItem ==
    (pc # "parse" /\ ~file.parseErr /\ TerragruntItems(file) = <<>>)
        => (pc = "failed" /\ err = errNotTerragruntConfig /\ ret = <<>>)

\* a document of two free variables and no terragrunt item was refused
C1_Refused ==
    /\ pc = "failed"
    /\ ~file.parseErr
    /\ TerragruntItems(file) = <<>>
    /\ Len(FreeVariables(file)) >= 2

\* C2: for every document with a top-level terragrunt item, the run ends
\* with an output: the children of the terragrunt object at top level in
\* source order, then, if and only if there are free variables, exactly one
\* "inputs = { ... }" attribute that holds all of them in source order; no
\* free variable is written outside of inputs and no setting inside of it.
C2_SettingsThenInputs ==
    (Ended /\ HasTerragruntObject(file)) =>
        /\ pc = "done"
        /\ ret = body.out
        /\ NodesOf(ItemsWritten(0, "")) = SettingChildren(file)
        /\ NodesOf(ItemsWritten(0, "inputs")) = FreeVariables(file)
        /\ \A i \in DOMAIN body.log :
              body.log[i].node.kind = "ObjectItem" => KeyWritten(body.log[i])
        /\ IF FreeVariables(file) = <<>> THEN ItemsWritten(-1, "") = <<>>
           ELSE /\ Len(ItemsWritten(-1, "")) = 1
                /\ LET e == ItemsWritten(-1, "")[1]
                   IN  /\ SubSeq(ret, e.from, e.from + 2)
                            = <<Tok("TokenIdent", "inputs"), tokEqual, tokOBrace>>
                       /\ SubSeq(ret, e.to - 1, e.to) = <<tokCBrace, tokNewline>>
                       /\ \A i \in DOMAIN ItemsWritten(0, "inputs") :
                             /\ e.from + 2 < ItemsWritten(0, "inputs")[i].pre
                             /\ ItemsWritten(0, "inputs")[i].to < e.to - 1
                       /\ \A i \in DOMAIN ItemsWritten(0, "") :
                             ItemsWritten(0, "")[i].to < e.pre

\* the same for the documents whose terragrunt object has children and
\* whose run did not panic
C2_WithSettings ==
    (Ended /\ HasTerragruntObject(file) /\ SettingChildren(file) # <<>> /\ pc # "panic")
        => C2_SettingsThenInputs

\* the number of times a comment is in the output
CommentCount(out, text) == Cardinality({i \in DOMAIN out : out[i] = tokComment(text)})

\* the comment groups attached to a top-level terragrunt item
OnTerragruntItem(f) ==
    UNION {{TerragruntItems(f)[i].LeadComment, TerragruntItems(f)[i].LineComment} \ {Nil} :
           i \in DOMAIN TerragruntItems(f)}

\* C3: when upgrade returns without error, every comment group of the input
\* is in the output exactly once, except the lead and line comments of a
\* top-level terragrunt item, which are not in it; the output holds no
\* other comment.
C3_CommentsOnce ==
    pc = "done" =>
        /\ \A i \in DOMAIN file.Comments : \A j \in DOMAIN file.Comments[i].Comments :
              CommentCount(ret, file.Comments[i].Comments[j])
                  = IF file.Comments[i] \in OnTerragruntItem(file) THEN 0 ELSE 1
        /\ Cardinality({i \in DOMAIN ret : ret[i].Type = "TokenComment"})
              = Cardinality(Range(file.Comments) \ OnTerragruntItem(file))

\* a run returned for a document with a comment on the terragrunt item and
\* a detached comment
C3_DroppedAndKept ==
    /\ pc = "done"
    /\ OnTerragruntItem(file) # {}
    /\ \E i \in DOMAIN file.Comments : file.Comments[i].Pos \notin AttachedPos(file.Node)

\* the log entry of a node written
EntryOf(n) == CHOOSE e \in Range(body.log) : e.node = n

\* the tokens of a list written: the elements with their comments are the
\* parts pre..to of the output
ListWritten(e) ==
    LET list == e.node.List
        n == Len(e.node.List)
        x(i) == EntryOf(e.node.List[i])
    IN  /\ body.out[e.from] = tokOBracket
        /\ body.out[e.to] = tokCBracket
        /\ IF e.node.Lbrack.Line = e.node.Rbrack.Line
           THEN /\ IF n = 0 THEN e.to = e.from + 1
                   ELSE x(1).pre = e.from + 1 /\ x(n).to = e.to - 1
                /\ \A i \in 1..(n - 1) :
                      /\ body.out[x(i).to + 1] = tokComma
                      /\ x(i + 1).pre = x(i).to + 2
           ELSE n > 0 =>
                /\ body.out[e.from + 1] = tokNewline
                /\ x(1).pre = e.from + 2
                /\ \A i \in 1..(n - 1) :
                      /\ SubSeq(body.out, x(i).to + 1, x(i).to + 2) = <<tokComma, tokNewline>>
                      /\ x(i + 1).pre = x(i).to + 3
                /\ SubSeq(body.out, x(n).to + 1, e.to) = <<tokComma, tokNewline, tokCBracket>>

\* C6: a list whose brackets are on one source line is written as "[", its
\* elements with one comma between two of them, no newline of the list's
\* own and no comma after the last, then "]"; any other list has each of
\* its elements on a line of its own, and a comma right after the last
\* element before the closing "]".
C6_Lists ==
    \A i \in DOMAIN body.log :
        body.log[i].node.kind = "ListType" => ListWritten(body.log[i])

\* a list of one line and a list of several lines, of two elements each,
\* were written
C6_BothKinds ==
    /\ \E i \in DOMAIN body.log :
          /\ body.log[i].node.kind = "ListType"
          /\ body.log[i].node.Lbrack.Line = body.log[i].node.Rbrack.Line
          /\ Len(body.log[i].node.List) >= 2
    /\ \E i \in DOMAIN body.log :
          /\ body.log[i].node.kind = "ListType"
          /\ body.log[i].node.Lbrack.Line # body.log[i].node.Rbrack.Line
          /\ Len(body.log[i].node.List) >= 2

\* the classifier as the specification states it
ClassifiedBlock(key, depth, parent) ==
    \/ depth = 0 /\ key \in {"terraform", "remote_state", "include", "dependencies"}
    \/ depth = 1 /\ parent = "terraform" /\ key = "extra_arguments"

\* the items of the source under items, each with its depth and its parent
\* key: the children of an item are one deeper, under the item's key
RECURSIVE Nested(_, _, _)
Nested(items, depth, parent) ==
    UNION {{[node |-> items[i], depth |-> depth, parent |-> parent]}
           \cup (IF items[i].Val.kind = "ObjectType"
                 THEN Nested(items[i].Val.ObjList.Items, depth + 1, items[i].Keys[1].Text)
                 ELSE {}) : i \in DOMAIN items}

ItemEntries == {e \in Range(body.log) : e.node.kind = "ObjectItem"}

\* the tokens that follow the key of an item written as a block: its labels
\* in quotes, and no "="
BlockWritten(e) ==
    /\ SubSeq(body.out, KeyAt(e) + 1, KeyAt(e) + 3 * (Len(e.node.Keys) - 1))
          = LabelTokens(e.node.Keys, 2)
    /\ body.out[KeyAt(e) + 3 * (Len(e.node.Keys) - 1) + 1] # tokEqual

AttributeWritten(e) == body.out[KeyAt(e) + 1] = tokEqual

\* C7: after the walk of the settings, the children of the terragrunt
\* object were written at depth 0 and their children at depth 1, and an
\* item is written as a block (its key, its labels in quotes) when its key
\* is terraform, remote_state, include or dependencies at depth 0 or
\* extra_arguments at depth 1 under terraform, and as an attribute (its
\* key, "=") otherwise, however the source wrote it.
C7_BlockOrAttribute ==
    pc = "inputs" =>
        /\ {[node |-> e.node, depth |-> e.depth, parent |-> e.parent] : e \in ItemEntries}
              = Nested(SettingChildren(file), 0, "")
        /\ \A e \in ItemEntries :
              /\ KeyWritten(e)
              /\ IF ClassifiedBlock(e.node.Keys[1].Text, e.depth, e.parent)
                 THEN BlockWritten(e)
                 ELSE AttributeWritten(e)

\* the settings held terraform written with "=", extra_arguments under it,
\* and terraform again two levels down
C7_EveryDepth ==
    /\ pc = "inputs"
    /\ \E e \in ItemEntries :
          e.depth = 0 /\ e.node.Keys[1].Text = "terraform" /\ e.node.Assign
    /\ \E e \in ItemEntries :
          e.depth = 1 /\ e.parent = "terraform" /\ e.node.Keys[1].Text = "extra_arguments"
    /\ \E e \in ItemEntries : e.depth = 2 /\ e.node.Keys[1].Text = "terraform"

(***************************************************************************)
(* The grammar of the output: a body of attributes "key = value" and of    *)
(* blocks "key labels { body }", each ended by a newline; a value is a     *)
(* number, a name, a call without arguments, a quoted string, a heredoc, a *)
(* tuple "[ ... ]" of values separated by commas, or an object "{ ... }"   *)
(* of "key = value" lines.  Each operator answers the index after what it  *)
(* has read, 0 when the tokens do not read as that.                        *)
(***************************************************************************)
Blank(tok) == tok.Type \in {"TokenNewline", "TokenComment"}

RECURSIVE ReadLabels(_, _)
ReadLabels(t, i) ==
    IF i + 2 <= Len(t) /\ t[i] = tokOQuote /\ t[i + 1].Type = "TokenQuotedLit"
       /\ t[i + 2] = tokCQuote
    THEN ReadLabels(t, i + 3)
    ELSE i

RECURSIVE ReadQuoted(_, _)
ReadQuoted(t, i) ==
    IF i > Len(t) THEN 0
    ELSE IF t[i] = tokCQuote THEN i + 1
    ELSE IF t[i].Type = "TokenQuotedLit" THEN ReadQuoted(t, i + 1)
    ELSE 0

RECURSIVE ReadValue(_, _)
RECURSIVE ReadTuple(_, _, _)
RECURSIVE ReadObject(_, _)
RECURSIVE ReadBody(_, _, _)

ReadValue(t, i) ==
    IF i > Len(t) THEN 0
    ELSE CASE t[i].Type = "TokenNumberLit" -> i + 1
           [] t[i].Type = "TokenIdent" ->
                IF i + 2 <= Len(t) /\ t[i + 1].Type = "TokenOParen"
                   /\ t[i + 2].Type = "TokenCParen"
                THEN i + 3 ELSE i + 1
           [] t[i].Type = "TokenOQuote" -> ReadQuoted(t, i + 1)
           [] t[i].Type = "TokenOHeredoc" ->
                IF i + 2 <= Len(t) /\ t[i + 1].Type = "TokenStringLit"
                   /\ t[i + 2].Type = "TokenCHeredoc"
                THEN i + 3 ELSE 0
           [] t[i].Type = "TokenOBrack" -> ReadTuple(t, i + 1, FALSE)
           [] t[i].Type = "TokenOBrace" -> ReadObject(t, i + 1)
           [] OTHER -> 0

\* after "[": newlines and comments do not count; a value, then a comma or
\* the closing "]"
ReadTuple(t, i, afterValue) ==
    IF i > Len(t) THEN 0
    ELSE IF Blank(t[i]) THEN ReadTuple(t, i + 1, afterValue)
    ELSE IF t[i] = tokCBracket THEN i + 1
    ELSE IF afterValue
    THEN IF t[i] = tokComma THEN ReadTuple(t, i + 1, FALSE) ELSE 0
    ELSE Bind(ReadValue(t, i), LAMBDA j : IF j = 0 THEN 0 ELSE ReadTuple(t, j, TRUE))

\* what follows a value in an object: the end of the line, a comma or "}"
AfterEntry(t, j) ==
    IF j = 0 \/ j > Len(t) THEN 0
    ELSE IF Blank(t[j]) \/ t[j] = tokComma THEN ReadObject(t, j + 1)
    ELSE IF t[j] = tokCBrace THEN j + 1
    ELSE 0

\* after the "{" of a value
ReadObject(t, i) ==
    IF i > Len(t) THEN 0
    ELSE IF Blank(t[i]) THEN ReadObject(t, i + 1)
    ELSE IF t[i] = tokCBrace THEN i + 1
    ELSE IF t[i].Type = "TokenIdent" /\ i < Len(t) /\ t[i + 1] = tokEqual
    THEN AfterEntry(t, ReadValue(t, i + 2))
    ELSE 0

\* what follows an attribute or a block: the end of the line or of the file
AfterItem(t, j, nested) ==
    IF j = 0 THEN 0
    ELSE IF j > Len(t) THEN ReadBody(t, j, nested)
    ELSE IF Blank(t[j]) THEN ReadBody(t, j + 1, nested)
    ELSE 0

\* the "{" of a block, its body and its "}"
ReadBlock(t, j, nested) ==
    IF j > Len(t) \/ t[j] # tokOBrace THEN 0
    ELSE Bind(ReadBody(t, j + 1, TRUE),
              LAMBDA k : IF k = 0 THEN 0 ELSE AfterItem(t, k + 1, nested))

\* a body: to the end of the file, or nested to its "}", whose index it
\* answers
ReadBody(t, i, nested) ==
    IF i > Len(t) THEN (IF nested THEN 0 ELSE i)
    ELSE IF Blank(t[i]) THEN ReadBody(t, i + 1, nested)
    ELSE IF t[i] = tokCBrace THEN (IF nested THEN i ELSE 0)
    ELSE IF t[i].Type # "TokenIdent" THEN 0
    ELSE IF i < Len(t) /\ t[i + 1] = tokEqual
    THEN AfterItem(t, ReadValue(t, i + 2), nested)
    ELSE ReadBlock(t, ReadLabels(t, i + 1), nested)

WellFormed(t) == ReadBody(t, 1, FALSE) = Len(t) + 1

\* C9: when upgrade returns without error, the tokens it returns are a
\* well-formed document: every "[" has its "]", with commas between the
\* elements and none right after "[", every block key is followed by its
\* labels and "{", every attribute key by "=" and a value.
C9_WellFormedOutput == pc = "done" => WellFormed(ret)

(***************************************************************************)
(* Specification of run, main.go:112-142, after validateArgs and loadFiles *)
(* have given the paths.  arg holds what each path of the list names: a    *)
(* file that cannot be read, or the document it holds; c is the position   *)
(* of the range loop in the list, file the bytes readFile returned, ret    *)
(* the bytes of upgrade, err the error run returns once pc = "returned".   *)
(* effects lists, in order, what the loop has done to which path.          *)
(***************************************************************************)
MaxPaths == 3

\* the documents of a batch: two without settings, one that does not parse,
\* one whose output the validation of save rejects, two that are saved and
\* one on which upgrade panics
RunFiles ==
    { Parse(<<SItem(<<"domain">>, Str)>>, {}),
      Parse(<<Terragrunt(<<>>)>>, {}),
      NoFile,
      Parse(<<Terragrunt(<<SItem(<<"skip">>, SList(TRUE, <<>>))>>)>>, {}),
      Parse(<<Terragrunt(<<SItem(<<"iam_role">>, SLit("interp"))>>)>>, {}),
      Parse(<<Terragrunt(<<SItem(<<"terraform">>, SObj(<<SItem(<<"source">>, Str)>>))>>),
              SItem(<<"domain">>, Str)>>, {}),
      Parse(<<SItem(<<"terragrunt">>, Str)>>, {}) }

Unreadable == [readable |-> FALSE, file |-> NoFile]

PathEntries == {Unreadable} \cup {[readable |-> TRUE, file |-> f] : f \in RunFiles}

Event(path, what) == [path |-> path, what |-> what]

InitRun ==
    /\ arg \in SeqsUpTo(PathEntries, MaxPaths)
    /\ c = 1
    /\ pc = "read"
    /\ err = ""
    /\ effects = <<>>
    /\ file = NoFile
    /\ ret = <<>>
    /\ body = NewBody(<<>>)
    /\ disk = <<>>
    /\ tgSettings = <<>>
    /\ inputVars = <<>>

\* main.go:124-127
ReadFile ==
    /\ pc = "read"
    /\ c <= Len(arg)
    /\ IF arg[c].readable
       THEN /\ file' = arg[c].file
            /\ pc' = "upgrade"
            /\ err' = err
       ELSE /\ file' = file
            /\ pc' = "returned"
            /\ err' = "read error"
    /\ effects' = Append(effects, Event(c, "read"))
    /\ UNCHANGED <<tgSettings, inputVars, body, ret, arg, c, disk>>

IsNotConfig_any(e) == e # ""

\* main.go:130
IsNotConfig(e) == e = errNotTerragruntConfig

\* main.go:129-135
Upgrade ==
    /\ pc = "upgrade"
    /\ Bind(upgrade(file), LAMBDA r :
         IF r.err = "panic"
         THEN /\ pc' = "panic"
              /\ UNCHANGED <<err, ret, c, effects>>
         ELSE IF IsNotConfig(r.err)
         THEN /\ effects' = Append(effects, Event(c, "warning"))
              /\ c' = c + 1
              /\ pc' = "read"
              /\ UNCHANGED <<err, ret>>
         ELSE IF r.err # ""
         THEN /\ err' = "error upgrading file: " \o r.err
              /\ pc' = "returned"
              /\ UNCHANGED <<ret, c, effects>>
         ELSE /\ ret' = r.out
              /\ pc' = "save"
              /\ UNCHANGED <<err, c, effects>>)
    /\ UNCHANGED <<file, tgSettings, inputVars, body, arg, disk>>

\* main.go:137-139, with save as main.go:516-561: the validation first, then
\* the writes, which fail or not
Save ==
    /\ pc = "save"
    /\ IF HasErrors([text |-> ret, valid |-> WellFormed(ret)])
       THEN /\ err' = "diagnostics"
            /\ pc' = "returned"
            /\ UNCHANGED <<c, effects>>
       ELSE \/ /\ effects' = Append(effects, Event(c, "save"))
               /\ c' = c + 1
               /\ pc' = "read"
               /\ err' = err
            \/ /\ effects' = Append(effects, Event(c, "save"))
               /\ err' = "save error"
               /\ pc' = "returned"
               /\ c' = c
    /\ UNCHANGED <<file, tgSettings, inputVars, body, ret, arg, disk>>

\* main.go:123 and main.go:141: the list is exhausted
ReturnNil ==
    /\ pc = "read"
    /\ c > Len(arg)
    /\ pc' = "returned"
    /\ UNCHANGED <<file, tgSettings, inputVars, body, err, ret, arg, c, disk, effects>>

NextRun == ReadFile \/ Upgrade \/ Save \/ ReturnNil

SpecRun == InitRun /\ [][NextRun]_vars

\* what run does with the file a path names, taken alone
Outcome(e) ==
    IF ~e.readable THEN "read error"
    ELSE Bind(upgrade(e.file), LAMBDA r :
           IF r.err = "panic" THEN "panic"
           ELSE IF r.err = errNotTerragruntConfig THEN "skip"
           ELSE IF r.err # "" THEN "upgrade error"
           ELSE IF ~WellFormed(r.out) THEN "invalid"
           ELSE "save")

Done(i, what) == \E k \in DOMAIN effects : effects[k] = Event(i, what)

\* C11: in a batch, a file on which upgrade reports errNotTerragruntConfig
\* gets a warning and is never saved, and the loop goes on to the files
\* after it: run never returns at such a file, and returns nil only when
\* it has gone through the whole list.  A file that cannot be read, whose
\* upgrade fails otherwise, whose output is not valid or whose save fails
\* makes run return that error at that file, and no file after it is
\* touched.
C11_SkipsAndPropagates ==
    /\ \A i \in 1..Len(arg) :
         /\ Outcome(arg[i]) = "skip" =>
               /\ ~Done(i, "save")
               /\ i < c => Done(i, "warning")
               /\ ~(pc = "returned" /\ c = i)
         /\ Done(i, "warning") => Outcome(arg[i]) = "skip"
         /\ Done(i, "save") => Outcome(arg[i]) = "save"
         /\ i < c => Outcome(arg[i]) \in {"skip", "save"}
         /\ i > c => \A k \in DOMAIN effects : effects[k].path # i
    /\ pc = "returned" =>
         IF err = "" THEN c = Len(arg) + 1
         ELSE /\ c <= Len(arg)
              /\ err = CASE Outcome(arg[c]) = "read error" -> "read error"
                         [] Outcome(arg[c]) = "upgrade error" ->
                               "error upgrading file: error parsing file"
                         [] Outcome(arg[c]) = "invalid" -> "diagnostics"
                         [] Outcome(arg[c]) = "save" -> "save error"
                         [] OTHER -> "none"

\* a file without settings was skipped, the next one saved, and run has
\* returned the error of the third, which does not parse
C11_SkippedThenStopped ==
    /\ pc = "returned"
    /\ Len(arg) = 3
    /\ c = 3
    /\ Done(1, "warning")
    /\ Done(2, "save")
    /\ err = "error upgrading file: error parsing file"

(***************************************************************************)
(* Specification of the comment index alone: any calls of PeekBefore and   *)
(* PopBefore, in any order, on the index of a document.  The places of a   *)
(* document are its byte offsets 0..MaxOffset, three to a line after the   *)
(* first two; comments start at the even offsets and nodes at the odd      *)
(* ones, so that a comment and a node share a line in either order.  The   *)
(* index (body.cl) starts as the comments of the document in source order, *)
(* as the parser lists them.  arg is the last call, ret what it returned,  *)
(* effects the comments popped so far.                                     *)
(***************************************************************************)
MaxOffset == 6
MaxIndex == 3

PosAt(k) == [Line |-> (k + 1) \div 3 + 1, Offset |-> k]

CommentOffsets == {k \in 0..MaxOffset : k % 2 = 0}

\* what a node passed to writeNode answers to Pos(): a place of the
\* document, or the zero position of the synthesized object
CallPositions == {PosAt(k) : k \in (0..MaxOffset) \ CommentOffsets} \cup {ZeroPos}

\* the comments at the offsets ks, in source order
RECURSIVE CommentsAt(_)
CommentsAt(ks) ==
    IF ks = {} THEN <<>>
    ELSE LET k == CHOOSE x \in ks : \A y \in ks : x <= y
         IN  <<CommentGroup(PosAt(k), <<"# c">>)>> \o CommentsAt(ks \ {k})

InitIndex ==
    /\ \E ks \in SUBSET CommentOffsets :
         /\ Cardinality(ks) <= MaxIndex
         /\ body = NewBody(CommentsAt(ks))
    /\ arg = [op |-> "none", pos |-> ZeroPos]
    /\ ret = <<>>
    /\ effects = <<>>
    /\ pc = "call"
    /\ err = ""
    /\ file = NoFile
    /\ tgSettings = <<>>
    /\ inputVars = <<>>
    /\ c = <<>>
    /\ disk = <<>>

\* main.go:569-582
CallPeekBefore ==
    /\ \E pos \in CallPositions :
         /\ arg' = [op |-> "PeekBefore", pos |-> pos]
         /\ ret' = PeekBefore(body.cl, pos)
    /\ UNCHANGED <<file, pc, tgSettings, inputVars, body, err, c, disk, effects>>

\* main.go:584-603
CallPopBefore ==
    /\ \E pos \in CallPositions :
         /\ arg' = [op |-> "PopBefore", pos |-> pos]
         /\ ret' = PopBefore(body.cl, pos).ret
         /\ body' = [body EXCEPT !.cl = PopBefore(body.cl, pos).rest]
         /\ effects' = effects \o PopBefore(body.cl, pos).ret
    /\ UNCHANGED <<file, pc, tgSettings, inputVars, err, c, disk>>

NextIndex == CallPeekBefore \/ CallPopBefore

SpecIndex == InitIndex /\ [][NextIndex]_vars

\* u starts strictly before p in the source
StartsBefore(u, p) == u.Offset < p.Offset

\* the length of the longest prefix of cl whose comments all start before pos
Leading(cl, pos) ==
    CHOOSE n \in 0..Len(cl) :
        /\ \A k \in 1..n : StartsBefore(cl[k].Pos, pos)
        /\ n < Len(cl) => ~StartsBefore(cl[n + 1].Pos, pos)

\* C12: for every state of the comment index and every position pos,
\* PeekBefore(pos) returns the longest prefix of the index whose comments
\* all start strictly before pos (empty if there is none) and leaves the
\* index as it is; PopBefore(pos) returns the same prefix and removes
\* exactly it, the rest of the index keeping its order, and no comment it
\* has returned is returned by a later PeekBefore or PopBefore.
C12_PeekAndPop ==
    [][ /\ ret' = SubSeq(body.cl, 1, Leading(body.cl, arg'.pos))
        /\ arg'.op = "PeekBefore" => body'.cl = body.cl
        /\ arg'.op = "PopBefore" =>
              body'.cl = SubSeq(body.cl, Leading(body.cl, arg'.pos) + 1, Len(body.cl))
        /\ \A k \in DOMAIN ret' : \A j \in DOMAIN effects : ret'[k] # effects[j]
      ]_vars

\* PopBefore has returned the first of three comments, and a later PopBefore
\* the second, which is on the line of the position; the third stays
C12_PoppedThenNext ==
    /\ Len(effects) = 2
    /\ Len(ret) = 1
    /\ Len(body.cl) = 1
    /\ arg.op = "PopBefore"
    /\ ret[1].Pos.Line = arg.pos.Line

(***************************************************************************)
(* The order of the calls of PopBefore in a run of upgrade (Spec):         *)
(* body.pops lists the position of every call, in the order of the calls.  *)
(***************************************************************************)
NonDecreasing(ps) == \A i \in 1..(Len(ps) - 1) : ~After(ps[i], ps[i + 1])

\* C13: in every run of upgrade the positions passed to PopBefore, over
\* the walk of the settings and then the walk of the synthesized inputs
\* item, never decrease from one call to the next.
C13_MonotonePops == NonDecreasing(body.pops)

\* the walk of the settings alone passes non-decreasing positions: the
\* state between the two walks
C13_SettingsWalk == pc = "inputs" => NonDecreasing(body.pops)

(***************************************************************************)
(* Specification of writeLiteral on a heredoc literal, main.go:426-457.    *)
(* arg is the literal as the v1 scanner returns it: Chars the raw text     *)
(* from "<<" to the closing delimiter, Value what Token.Value() decodes    *)
(* from it (the lines of the body, without their indentation when the      *)
(* heredoc is opened with "<<-").  ret holds the tokens appended.          *)
(***************************************************************************)
MaxLines == 2

Delims == {<<"E", "O", "F">>, <<"E", "N", "D">>, <<"E">>}

Lines == {<<"x">>, <<"e", "c", "h", "o">>}

Indent(indented) == IF indented THEN <<" ", " ">> ELSE <<>>

RECURSIVE BodyChars(_, _)
BodyChars(lines, ind) ==
    IF lines = <<>> THEN <<>>
    ELSE ind \o Head(lines) \o <<"\n">> \o BodyChars(Tail(lines), ind)

\* a heredoc: strip is the "-" flag, indented whether its lines (and, under
\* "<<-", its closing delimiter) are indented
Heredoc(strip, delim, indented, lines) ==
    [Literal("heredoc", ZeroPos, Nil, Nil) EXCEPT
        !.Text = "<<" \o (IF strip THEN "-" ELSE "") \o Concat(delim),
        !.Chars = <<"<", "<">> \o (IF strip THEN <<"-">> ELSE <<>>) \o delim \o <<"\n">>
                  \o BodyChars(lines, Indent(indented))
                  \o (IF strip THEN Indent(indented) ELSE <<>>) \o delim,
        !.Value = Concat(BodyChars(lines, IF strip THEN <<>> ELSE Indent(indented)))]

\* a HEREDOC token whose text ends before any newline
Unterminated(strip, delim) ==
    [Literal("heredoc", ZeroPos, Nil, Nil) EXCEPT
        !.Text = "<<" \o (IF strip THEN "-" ELSE "") \o Concat(delim),
        !.Chars = <<"<", "<">> \o (IF strip THEN <<"-">> ELSE <<>>) \o delim,
        !.Value = ""]

Heredocs ==
    {Heredoc(strip, delim, indented, lines) :
        strip \in BOOLEAN, delim \in Delims, indented \in BOOLEAN,
        lines \in SeqsUpTo(Lines, MaxLines)}
    \cup {Unterminated(strip, delim) : strip \in BOOLEAN, delim \in Delims}

InitHeredoc ==
    /\ arg \in Heredocs
    /\ pc = "call"
    /\ ret = <<>>
    /\ err = ""
    /\ body = NewBody(<<>>)
    /\ file = NoFile
    /\ tgSettings = <<>>
    /\ inputVars = <<>>
    /\ c = <<>>
    /\ disk = <<>>
    /\ effects = <<>>

\* main.go:426-457
WriteHeredoc ==
    /\ pc = "call"
    /\ IF LiteralPanics(arg)
       THEN pc' = "panic" /\ UNCHANGED <<ret, body>>
       ELSE /\ pc' = "done"
            /\ ret' = writeLiteral(arg)
            /\ body' = AppendTokens(body, writeLiteral(arg))
    /\ UNCHANGED <<file, tgSettings, inputVars, err, arg, c, disk, effects>>

NextHeredoc == WriteHeredoc

SpecHeredoc == InitHeredoc /\ [][NextHeredoc]_vars

HasNewline(chars) == \E i \in DOMAIN chars : chars[i] = "\n"

\* the characters between "<<" and the first newline, without the "-" flag
BareDelimiter(chars) ==
    LET between == SubSeq(chars, 3, IndexNewline(chars, 1) - 1)
    IN  Concat(IF between # <<>> /\ between[1] = "-" THEN Tail(between) ELSE between)

\* the three tokens of a heredoc whose markers use delim
HeredocTokens(delim, text) ==
    <<Tok("TokenOHeredoc", "<<" \o delim), Tok("TokenStringLit", text),
      Tok("TokenCHeredoc", delim)>>

\* a heredoc without a newline panics and appends nothing, one with a
\* newline does not panic
PanicsWithoutNewline ==
    /\ pc = "panic" => ~HasNewline(arg.Chars) /\ ret = <<>> /\ body.out = <<>>
    /\ pc = "done" => HasNewline(arg.Chars)

\* C14: for a heredoc literal whose raw text has a newline, writeLiteral
\* appends the opening marker "<<" followed by the bare delimiter (the
\* characters between "<<" and the first newline, without a leading "-"),
\* then the decoded body, then a closing marker that is this delimiter; a
\* heredoc whose raw text has no newline panics and nothing is returned.
C14_BareDelimiter ==
    /\ PanicsWithoutNewline
    /\ pc = "done" => ret = HeredocTokens(BareDelimiter(arg.Chars), arg.Value)

\* C14 as the code has it: the delimiter of both markers is the bare
\* delimiter together with the newline that ends the opening line, so the
\* opening marker is "<<" delimiter newline and the closing marker is
\* delimiter newline.
C14_DelimiterWithNewline ==
    /\ PanicsWithoutNewline
    /\ pc = "done" => ret = HeredocTokens(BareDelimiter(arg.Chars) \o "\n", arg.Value)

\* an indented heredoc opened with "<<-" has been written
C14_StripFlagRemoved ==
    /\ pc = "done"
    /\ arg.Chars[3] = "-"
    /\ Len(arg.Value) > 2
    /\ ret[1].Bytes = "<<EOF\n"

(***************************************************************************)
(* The items of the synthesized inputs object in a run of upgrade (Spec).  *)
(***************************************************************************)
\* the inputs item is the one item written at depth -1
InputsEntries == {e \in ItemEntries : e.depth = -1}

\* the items written inside it: the free variables and what they hold
InsideInputs == {e \in ItemEntries : \E i \in InputsEntries : e.from > i.from}

\* C15: every item written inside the synthesized inputs object, the free
\* variables and the items nested in their values, is written as an
\* attribute, its key followed by "=", whatever the key is, terraform,
\* remote_state, include and dependencies included: none is written as a
\* block.
C15_InputsItemsAreAttributes ==
    \A e \in InsideInputs : KeyWritten(e) /\ AttributeWritten(e)

\* the free variables with other keys are written as attributes
C15_OtherKeys ==
    \A e \in InsideInputs :
        ~ClassifiedBlock(e.node.Keys[1].Text, e.depth, e.parent)
            => KeyWritten(e) /\ AttributeWritten(e)

(***************************************************************************)
(* The error of a run of upgrade (Spec).                                   *)
(***************************************************************************)
\* C16: upgrade returns errNotTerragruntConfig only for a document without
\* a top-level terragrunt item: a document that has a terragrunt item with
\* an object value, an object without children included, is transformed,
\* its run does not end with that error.
C16_OnlyWithoutTerragruntItem ==
    /\ err = errNotTerragruntConfig => TerragruntItems(file) = <<>>
    /\ (HasTerragruntObject(file) /\ Ended) => pc # "failed"

\* a document whose terragrunt objects have a child between them never
\* gets the error
C16_WithChildren ==
    (HasTerragruntObject(file) /\ SettingChildren(file) # <<>> /\ Ended) => pc # "failed"

(***************************************************************************)
(* The comment index over a run of upgrade (Spec).  The index changes only *)
(* in PopBefore, called once per position of body.pops, so its state after *)
(* each call is found again from the detached comments of the file.        *)
(***************************************************************************)
IsSuffix(s, t) == Len(s) <= Len(t) /\ s = SubSeq(t, Len(t) - Len(s) + 1, Len(t))

\* the index after the first k calls of PopBefore
RECURSIVE IndexAfter(_, _, _)
IndexAfter(cl, pops, k) ==
    IF k = 0 THEN cl ELSE PopBefore(IndexAfter(cl, pops, k - 1), pops[k]).rest

\* the texts of the comments of the groups of cl, in order
RECURSIVE TextsOf(_, _)
TextsOf(cl, i) == IF i > Len(cl) THEN <<>> ELSE cl[i].Comments \o TextsOf(cl, i + 1)

\* the comments of out whose text is one of texts, in the order of out
CommentsWritten(out, texts) ==
    Bind(SelectSeq(out, LAMBDA t : t.Type = "TokenComment" /\ t.Bytes \in Range(texts)),
         LAMBDA toks : [i \in DOMAIN toks |-> toks[i].Bytes])

\* what main.go:285-291 appends for the groups left: a newline, then the group
RECURSIVE LeftTokens(_, _)
LeftTokens(cl, i) ==
    IF i > Len(cl) THEN <<>>
    ELSE <<tokNewline>> \o GroupTokens(cl[i].Comments, 1) \o LeftTokens(cl, i + 1)

\* C17: at every point of a run the comment index is a suffix of the list
\* of detached comments the run started with; when the run returns, the
\* detached comments are in the output in their source order, whatever the
\* order of the positions popped (free variables before the terragrunt
\* item included), and the comments still in the index after the two walks
\* are the end of the output, each after an empty line.
C17_SuffixAndSourceOrder ==
    (pc # "parse" /\ ~file.parseErr) =>
        /\ \A k \in 0..Len(body.pops) :
              IsSuffix(IndexAfter(loadDetachedComments(file), body.pops, k),
                       loadDetachedComments(file))
        /\ body.cl = IndexAfter(loadDetachedComments(file), body.pops, Len(body.pops))
        /\ pc = "done" =>
              /\ CommentsWritten(ret, TextsOf(loadDetachedComments(file), 1))
                    = TextsOf(loadDetachedComments(file), 1)
              /\ IsSuffix(<<tokNewline>> \o LeftTokens(body.cl, 1), ret)

\* a run has returned for a document with a free variable before the
\* terragrunt item and two detached comments, one popped in a walk and one
\* left for the end
C17_PoppedAndLeft ==
    /\ pc = "done"
    /\ file.Node.Items[1].Keys[1].Text # "terragrunt"
    /\ Len(loadDetachedComments(file)) = 2
    /\ Len(body.cl) = 1

====
